---- MODULE Spec2Model ----
(***************************************************************************)
(* A model of fwu_gen_metadata: the command-line tool (fwumd_tool.py) and  *)
(* its interactive / scripted shell (src/shell.py) over the fwu_metadata   *)
(* record.  The codec the two files import (src/structs.py,                *)
(* src/metadata.py, src/uuid_t.py) is modelled from the specification.     *)
(*                                                                         *)
(* Representation.  A Python dict is a sequence of [k, v] records in       *)
(* insertion order with distinct keys.  A byte string is a sequence of     *)
(* numbers in 0..255.  A UUID text is a sequence of 36 character codes:    *)
(* 0..9 the digits, 10..15 a..f, 16..21 A..F, 22 the hyphen, 23 any other  *)
(* character.  TLC's integers are 32-bit signed, so a 32-bit checksum is   *)
(* kept as its 8 nibbles, low nibble first.                                *)
(***************************************************************************)
EXTENDS Integers, Sequences, FiniteSets, TLC

\* ------------------------------------------------------------- bounds
MaxImg == 2
MaxBanks == 2
MaxFileSteps == 3
MaxSteps == 4

\* ------------------------------------------------ layout (spec 3, 6)
HeaderSize == 16
EntryHeaderSize == 32
BankInfoSize == 24

EntrySize(nb_banks) == EntryHeaderSize + (nb_banks * BankInfoSize)

TotalSize(nb_fw_imgs, nb_banks) == HeaderSize + (nb_fw_imgs * EntrySize(nb_banks))

\* ------------------------------------------------------ ordered dicts
Keys(d) == [i \in 1..Len(d) |-> d[i].k]

Values(d) == [i \in 1..Len(d) |-> d[i].v]

HasKey(d, key) == \E i \in 1..Len(d) : d[i].k = key

Get(d, key) == d[CHOOSE i \in 1..Len(d) : d[i].k = key].v

Put(d, key, val) ==
    IF HasKey(d, key)
    THEN [i \in 1..Len(d) |-> IF d[i].k = key THEN [k |-> key, v |-> val] ELSE d[i]]
    ELSE Append(d, [k |-> key, v |-> val])

RECURSIVE Flatten(_)
Flatten(ss) == IF ss = <<>> THEN <<>> ELSE Head(ss) \o Flatten(Tail(ss))

\* ------------------------------------------------- UUID codec (spec 4.2)
Hyphen == 22
HyphenPos == {9, 14, 19, 24}
HexPos == <<1, 2, 3, 4, 5, 6, 7, 8, 10, 11, 12, 13, 15, 16, 17, 18,
            20, 21, 22, 23, 25, 26, 27, 28, 29, 30, 31, 32, 33, 34, 35, 36>>
\* Byte k of the wire form is byte WireOrder[k] of the text: the first three
\* groups byte-swapped, the last eight bytes in textual order.
WireOrder == <<4, 3, 2, 1, 6, 5, 8, 7, 9, 10, 11, 12, 13, 14, 15, 16>>

IsHex(c) == c \in 0..21

HexVal(c) == IF c > 15 THEN c - 6 ELSE c

validate_uuid(text) ==
    /\ Len(text) = 36
    /\ \A i \in 1..36 : IF i \in HyphenPos THEN text[i] = Hyphen ELSE IsHex(text[i])

normalize_uuid(text) == [i \in 1..36 |-> IF IsHex(text[i]) THEN HexVal(text[i]) ELSE text[i]]

\* An encoder that writes the text's bytes in textual order, without the swap.
uuid_to_bytes_textual(text) ==
    [k \in 1..16 |-> (16 * HexVal(text[HexPos[(2 * k) - 1]])) + HexVal(text[HexPos[2 * k]])]

uuid_to_bytes(text) ==
    [k \in 1..16 |->
        (16 * HexVal(text[HexPos[(2 * WireOrder[k]) - 1]])) + HexVal(text[HexPos[2 * WireOrder[k]]])]

\* A decoder that takes the wire bytes in textual order, without the swap.
uuid_from_bytes_textual(bytes) ==
    [i \in 1..36 |->
        IF i \in HyphenPos THEN Hyphen
        ELSE LET h == CHOOSE j \in 1..32 : HexPos[j] = i
                 t == (h + 1) \div 2
             IN  IF h % 2 = 1 THEN bytes[t] \div 16 ELSE bytes[t] % 16]

\* The text position i holds a nibble of the text byte t, found at wire place k.
uuid_from_bytes(bytes) ==
    [i \in 1..36 |->
        IF i \in HyphenPos THEN Hyphen
        ELSE LET h == CHOOSE j \in 1..32 : HexPos[j] = i
                 t == (h + 1) \div 2
                 k == CHOOSE j \in 1..16 : WireOrder[j] = t
             IN  IF h % 2 = 1 THEN bytes[k] \div 16 ELSE bytes[k] % 16]

ZeroUuid == [i \in 1..36 |-> IF i \in HyphenPos THEN Hyphen ELSE 0]

\* uuid.uuid4(): a random UUID in lower case; the randomness is the seed.
uuid4(seed) ==
    [i \in 1..36 |-> IF i \in HyphenPos THEN Hyphen ELSE (((seed % 16) * (i + 1)) + ((seed \div 16) * ((i * i) + 1)) + (3 * i)) % 16]

\* ------------------------------------------------------ CRC-32 (spec 3)
XorNib ==
    << <<0, 1, 2, 3, 4, 5, 6, 7, 8, 9, 10, 11, 12, 13, 14, 15>>,
       <<1, 0, 3, 2, 5, 4, 7, 6, 9, 8, 11, 10, 13, 12, 15, 14>>,
       <<2, 3, 0, 1, 6, 7, 4, 5, 10, 11, 8, 9, 14, 15, 12, 13>>,
       <<3, 2, 1, 0, 7, 6, 5, 4, 11, 10, 9, 8, 15, 14, 13, 12>>,
       <<4, 5, 6, 7, 0, 1, 2, 3, 12, 13, 14, 15, 8, 9, 10, 11>>,
       <<5, 4, 7, 6, 1, 0, 3, 2, 13, 12, 15, 14, 9, 8, 11, 10>>,
       <<6, 7, 4, 5, 2, 3, 0, 1, 14, 15, 12, 13, 10, 11, 8, 9>>,
       <<7, 6, 5, 4, 3, 2, 1, 0, 15, 14, 13, 12, 11, 10, 9, 8>>,
       <<8, 9, 10, 11, 12, 13, 14, 15, 0, 1, 2, 3, 4, 5, 6, 7>>,
       <<9, 8, 11, 10, 13, 12, 15, 14, 1, 0, 3, 2, 5, 4, 7, 6>>,
       <<10, 11, 8, 9, 14, 15, 12, 13, 2, 3, 0, 1, 6, 7, 4, 5>>,
       <<11, 10, 9, 8, 15, 14, 13, 12, 3, 2, 1, 0, 7, 6, 5, 4>>,
       <<12, 13, 14, 15, 8, 9, 10, 11, 4, 5, 6, 7, 0, 1, 2, 3>>,
       <<13, 12, 15, 14, 9, 8, 11, 10, 5, 4, 7, 6, 1, 0, 3, 2>>,
       <<14, 15, 12, 13, 10, 11, 8, 9, 6, 7, 4, 5, 2, 3, 0, 1>>,
       <<15, 14, 13, 12, 11, 10, 9, 8, 7, 6, 5, 4, 3, 2, 1, 0>> >>

Xor4(a, b) == XorNib[a + 1][b + 1]

\* The CRC-32 (polynomial 0xEDB88320, reflected) of each nibble value, as 8
\* nibbles, low nibble first.
CrcTable ==
    << <<0, 0, 0, 0, 0, 0, 0, 0>>,
       <<4, 6, 0, 1, 7, 11, 13, 1>>,
       <<8, 12, 0, 2, 14, 6, 11, 3>>,
       <<12, 10, 0, 3, 9, 13, 6, 2>>,
       <<0, 9, 1, 4, 12, 13, 6, 7>>,
       <<4, 15, 1, 5, 11, 6, 11, 6>>,
       <<8, 5, 1, 6, 2, 11, 13, 4>>,
       <<12, 3, 1, 7, 5, 0, 0, 5>>,
       <<0, 2, 3, 8, 8, 11, 13, 14>>,
       <<4, 4, 3, 9, 15, 0, 0, 15>>,
       <<8, 14, 3, 10, 6, 13, 6, 13>>,
       <<12, 8, 3, 11, 1, 6, 11, 12>>,
       <<0, 11, 2, 12, 4, 6, 11, 9>>,
       <<4, 13, 2, 13, 3, 13, 6, 8>>,
       <<8, 7, 2, 14, 10, 0, 0, 10>>,
       <<12, 1, 2, 15, 13, 11, 13, 11>> >>

\* One nibble of input: crc := CrcTable[(crc XOR nib) AND 15] XOR (crc >> 4).
CrcNibble(c, nib) ==
    LET t == CrcTable[Xor4(c[1], nib) + 1]
    IN  <<Xor4(t[1], c[2]), Xor4(t[2], c[3]), Xor4(t[3], c[4]), Xor4(t[4], c[5]),
          Xor4(t[5], c[6]), Xor4(t[6], c[7]), Xor4(t[7], c[8]), t[8]>>

\* The register after bytes[lo..hi], by halves: the nesting stays logarithmic.
RECURSIVE CrcUpdate(_, _, _, _)
CrcUpdate(c, bytes, lo, hi) ==
    IF lo > hi THEN c
    ELSE IF lo = hi THEN CrcNibble(CrcNibble(c, bytes[lo] % 16), bytes[lo] \div 16)
    ELSE LET mid == (lo + hi) \div 2
             left == CrcUpdate(c, bytes, lo, mid)
         IN  IF left[1] >= 0 THEN CrcUpdate(left, bytes, mid + 1, hi) ELSE left

\* The checksum as the 4 bytes of its little-endian u32.
crc32(bytes) ==
    LET c == CrcUpdate(<<15, 15, 15, 15, 15, 15, 15, 15>>, bytes, 1, Len(bytes))
        f == [i \in 1..8 |-> 15 - c[i]]
    IN  <<f[1] + (16 * f[2]), f[3] + (16 * f[4]), f[5] + (16 * f[6]), f[7] + (16 * f[8])>>

\* ------------------------------------------------ little-endian u32
LE4(v) == <<v % 256, (v \div 256) % 256, (v \div 65536) % 256, (v \div 16777216) % 256>>

\* A value of 2^31 or more is outside TLC's integers: it is read as v - 2^32,
\* a negative number, which like v itself lies in no range [0, bank count).
U32(bytes, off) ==
    bytes[off + 1] + (256 * bytes[off + 2]) + (65536 * bytes[off + 3])
        + (16777216 * (IF bytes[off + 4] < 128 THEN bytes[off + 4] ELSE bytes[off + 4] - 256))

\* ----------------------------------------- structured model (spec 3, 6)
NoneVal == [none |-> TRUE]

ImgName(i) == "img_" \o ToString(i)

BankKey(img, b) == img \o "_bank_" \o ToString(b)

LocName(i) == "loc_" \o ToString(i)

DefaultLocation == "sda"

ImgEntry(md) == md.metadata.img_entry

\* -------------------------------------------- dummy generator (spec 4.5)
\* seed: the random source; key number p of the model draws uuid4(seed + p).
create_dummy_metadata(nb_fw_imgs, nb_banks, seed) ==
    LET slot(i) == seed + ((i - 1) * (nb_banks + 1))
    IN  [metadata |->
            [version |-> 0, active_index |-> 0, previous_active_index |-> 0,
             img_entry |->
                [i \in 1..nb_fw_imgs |->
                    [k |-> ImgName(i - 1),
                     v |-> [location |-> DefaultLocation,
                            img_bank_info |->
                                [b \in 1..nb_banks |->
                                    [k |-> BankKey(ImgName(i - 1), b - 1),
                                     v |-> [accepted |-> TRUE, reserved |-> 0]]]]]]],
         uuids |->
            [entries |->
                Flatten([i \in 1..nb_fw_imgs |->
                    <<[k |-> ImgName(i - 1), v |-> uuid4(slot(i))]>>
                    \o [b \in 1..nb_banks |->
                           [k |-> BankKey(ImgName(i - 1), b - 1), v |-> uuid4(slot(i) + b)]]]),
             locations |-> <<[k |-> DefaultLocation, v |-> uuid4(slot(nb_fw_imgs + 1))]>>],
         configs |-> [nb_fw_img |-> nb_fw_imgs, nb_fw_banks |-> nb_banks]]

\* The number of UUIDs one dummy model draws.
DummyDraws(nb_fw_imgs, nb_banks) == (nb_fw_imgs * (nb_banks + 1)) + 1

\* ------------------------------------------------- validator (spec 4.4)
InRange(i, nb_banks) == i >= 0 /\ i < nb_banks

validate_metadata(md) ==
    /\ md.configs.nb_fw_img >= 1
    /\ md.configs.nb_fw_banks >= 1
    /\ Len(ImgEntry(md)) = md.configs.nb_fw_img
    /\ \A i \in 1..Len(ImgEntry(md)) :
          Len(ImgEntry(md)[i].v.img_bank_info) = md.configs.nb_fw_banks
    /\ InRange(md.metadata.active_index, md.configs.nb_fw_banks)
    /\ InRange(md.metadata.previous_active_index, md.configs.nb_fw_banks)
    /\ \A i \in 1..Len(md.uuids.entries) : validate_uuid(md.uuids.entries[i].v)
    /\ \A i \in 1..Len(md.uuids.locations) : validate_uuid(md.uuids.locations[i].v)

\* ------------------------------------------- binary codec: encode (4.3)
\* Every symbolic key the record needs is in the side-table, and the model has
\* the shape its configs give the record.
EncodeOk(md) ==
    /\ Len(ImgEntry(md)) = md.configs.nb_fw_img
    /\ \A i \in 1..Len(ImgEntry(md)) :
          LET img == ImgEntry(md)[i]
          IN  /\ HasKey(md.uuids.entries, img.k)
              /\ HasKey(md.uuids.locations, img.v.location)
              /\ Len(img.v.img_bank_info) = md.configs.nb_fw_banks
              /\ \A b \in 1..Len(img.v.img_bank_info) :
                    HasKey(md.uuids.entries, img.v.img_bank_info[b].k)

\* A bank written without its reserved word.
EncodeBankNoReserved(md, bank) ==
    uuid_to_bytes(Get(md.uuids.entries, bank.k)) \o LE4(IF bank.v.accepted THEN 1 ELSE 0)

EncodeBank(md, bank) ==
    uuid_to_bytes(Get(md.uuids.entries, bank.k))
        \o LE4(IF bank.v.accepted THEN 1 ELSE 0) \o LE4(bank.v.reserved)

EncodeEntry(md, img) ==
    uuid_to_bytes(Get(md.uuids.entries, img.k))
        \o uuid_to_bytes(Get(md.uuids.locations, img.v.location))
        \o Flatten([b \in 1..Len(img.v.img_bank_info) |-> EncodeBank(md, img.v.img_bank_info[b])])

\* The record with its checksum slot zero-filled.
EncodeBody(md) ==
    <<0, 0, 0, 0>> \o LE4(md.metadata.version) \o LE4(md.metadata.active_index)
        \o LE4(md.metadata.previous_active_index)
        \o Flatten([i \in 1..Len(ImgEntry(md)) |-> EncodeEntry(md, ImgEntry(md)[i])])

\* The checksum of the whole record with the checksum slot treated as zero.
compute_crc32(buf) == crc32(<<0, 0, 0, 0>> \o SubSeq(buf, 5, Len(buf)))

update_crc32(buf) == compute_crc32(buf) \o SubSeq(buf, 5, Len(buf))

fwupd_from_dict(md) == update_crc32(EncodeBody(md))

\* ------------------------------------------- binary codec: decode (4.3)
DecodeErr(fwupd, nb_fw_imgs, nb_banks) ==
    IF nb_fw_imgs < 1 \/ nb_banks < 1 THEN "ConfigError"
    ELSE IF Len(fwupd) # TotalSize(nb_fw_imgs, nb_banks) THEN "SizeMismatchError"
    ELSE IF SubSeq(fwupd, 1, 4) # compute_crc32(fwupd) THEN "IntegrityError"
    ELSE "ok"

EntryOff(i, nb_banks) == HeaderSize + ((i - 1) * EntrySize(nb_banks))

BankOff(i, b, nb_banks) == EntryOff(i, nb_banks) + EntryHeaderSize + ((b - 1) * BankInfoSize)

UuidAt(fwupd, off) == uuid_from_bytes(SubSeq(fwupd, off + 1, off + 16))

\* The caller hands over the side-table's entry keys without their UUIDs
\* (fwumd_tool.py:87), so an entry key can only be taken by its place in that
\* list: image, its banks, next image; a place the list lacks gets a
\* placeholder key.
EntryKeyAt(images_keys, p, placeholder) ==
    IF p <= Len(images_keys) THEN images_keys[p] ELSE placeholder

DecImgKey(images_keys, i, nb_banks) ==
    EntryKeyAt(images_keys, ((i - 1) * (nb_banks + 1)) + 1, ImgName(i - 1))

DecBankKey(images_keys, i, b, nb_banks) ==
    EntryKeyAt(images_keys, ((i - 1) * (nb_banks + 1)) + 1 + b,
               BankKey(DecImgKey(images_keys, i, nb_banks), b - 1))

\* A location's name is recovered by the value of its UUID.
DecLocKey(locations, uuid, i) ==
    IF \E j \in 1..Len(locations) : locations[j].v = uuid
    THEN locations[CHOOSE j \in 1..Len(locations) :
                      /\ locations[j].v = uuid
                      /\ \A h \in 1..(j - 1) : locations[h].v # uuid].k
    ELSE LocName(i - 1)

RECURSIVE PutAll(_, _)
PutAll(d, kvs) == IF kvs = <<>> THEN d ELSE PutAll(Put(d, Head(kvs).k, Head(kvs).v), Tail(kvs))

fwupd_to_dict(fwupd, nb_fw_imgs, nb_banks, images_keys, locations) ==
    LET imgkey(i) == DecImgKey(images_keys, i, nb_banks)
        lockey(i) == DecLocKey(locations, UuidAt(fwupd, EntryOff(i, nb_banks) + 16), i)
        bank(i, b) ==
            [k |-> DecBankKey(images_keys, i, b, nb_banks),
             v |-> [accepted |-> U32(fwupd, BankOff(i, b, nb_banks) + 16) # 0,
                    reserved |-> U32(fwupd, BankOff(i, b, nb_banks) + 20)]]
        entry(i) ==
            [k |-> imgkey(i),
             v |-> [location |-> lockey(i),
                    img_bank_info |-> PutAll(<<>>, [b \in 1..nb_banks |-> bank(i, b)])]]
        uuids(i) ==
            <<[k |-> imgkey(i), v |-> UuidAt(fwupd, EntryOff(i, nb_banks))]>>
            \o [b \in 1..nb_banks |->
                   [k |-> DecBankKey(images_keys, i, b, nb_banks),
                    v |-> UuidAt(fwupd, BankOff(i, b, nb_banks))]]
    IN  [metadata |->
            [version |-> U32(fwupd, 4), active_index |-> U32(fwupd, 8),
             previous_active_index |-> U32(fwupd, 12),
             img_entry |-> PutAll(<<>>, [i \in 1..nb_fw_imgs |-> entry(i)])],
         uuids |->
            [entries |-> PutAll(<<>>, Flatten([i \in 1..nb_fw_imgs |-> uuids(i)])),
             locations |->
                PutAll(<<>>, [i \in 1..nb_fw_imgs |->
                    [k |-> lockey(i), v |-> UuidAt(fwupd, EntryOff(i, nb_banks) + 16)]])],
         configs |-> [nb_fw_img |-> nb_fw_imgs, nb_fw_banks |-> nb_banks]]

\* --------------------------------------- cross-consistency (spec 4.4)
\* The fields the check compares: the indices, every bank's accepted flag,
\* every UUID value; not the version, the reserved words or the names.
\* A comparison that leaves the accepted flags out.
ComparedFieldsNoFlags(md) ==
    <<md.metadata.active_index, md.metadata.previous_active_index,
      Values(md.uuids.entries),
      [i \in 1..Len(ImgEntry(md)) |-> Get(md.uuids.locations, ImgEntry(md)[i].v.location)]>>

ComparedFields(md) ==
    <<md.metadata.active_index, md.metadata.previous_active_index,
      [i \in 1..Len(ImgEntry(md)) |->
          [b \in 1..Len(ImgEntry(md)[i].v.img_bank_info) |->
              ImgEntry(md)[i].v.img_bank_info[b].v.accepted]],
      Values(md.uuids.entries),
      [i \in 1..Len(ImgEntry(md)) |-> Get(md.uuids.locations, ImgEntry(md)[i].v.location)]>>

validate_fwupd_and_dict(md, fwupd) ==
    LET n == md.configs.nb_fw_img
        b == md.configs.nb_fw_banks
    IN  /\ EncodeOk(md)
        /\ DecodeErr(fwupd, n, b) = "ok"
        /\ ComparedFields(fwupd_to_dict(fwupd_from_dict(md), n, b, <<>>, <<>>))
               = ComparedFields(fwupd_to_dict(fwupd, n, b, <<>>, <<>>))

\* ------------------------------------------------------------- state
VARIABLES
    pc,         \* "idle": no shell runs; "shell": a session runs; "over": it ended
    metadata,   \* FwupdShell.metadata: NoneVal or the dict
    fwupd,      \* FwupdShell.fwupd: <<>> (None) or the record's bytes
    jsonfile,   \* the JSON file on disk: NoFile, EmptyJson, NullJson or its dict
    binfile,    \* the binary file on disk: NoBin or its bytes (<<>>: empty)
    outjson,    \* the JSON file binparse writes: NoFile, EmptyJson or its dict
    binflip,    \* binfile is an encode output with one bit flipped outside the checksum
    session,    \* the files start_shell was given: [json, bin, cfg]
    rng,        \* the number of UUIDs uuid4 has drawn
    steps,      \* the number of operations so far
    last,       \* the last operation: its name, its result, what it decoded with
    argv,       \* the arguments of the shell command: [script, commands, keep, files]
    cmdlist,    \* start_shell's cmdlist: the commands cli_shell made of the arguments
    nbcmd,      \* the position of start_shell's loop in cmdlist, from 0
    ran,        \* the commands handed to onecmd so far
    written     \* the files start_shell has written back, in order

\* The state of the script runner.
runner == <<argv, cmdlist, nbcmd, ran, written>>

vars == <<pc, metadata, fwupd, jsonfile, binfile, outjson, binflip, session, rng, steps, last,
          argv, cmdlist, nbcmd, ran, written>>

\* No shell command has been given.
NoArgs == [noargs |-> TRUE]

NoCfg == <<0, 0>>

\* A file that does not exist; a JSON file holding nothing; one holding null.
NoFile == [nofile |-> TRUE]
EmptyJson == [empty |-> TRUE]
NullJson == [null |-> TRUE]
NoBin == <<-1>>

IsDict(json) == json \notin {NoFile, EmptyJson, NullJson, NoneVal}

\* op: the operation; res: "ok" or the exception raised; built: the counts the
\* record was built with; passed: the counts handed to the decoder; tmpl: a
\* template was given.
OpDec(op, res, built, passed) ==
    [op |-> op, res |-> res, built |-> built, passed |-> passed, tmpl |-> FALSE,
     open |-> {}]

Op(op, res) == OpDec(op, res, NoCfg, NoCfg)

Counts == (1..MaxImg) \X (1..MaxBanks)

CfgOf(md) == <<md.configs.nb_fw_img, md.configs.nb_fw_banks>>

\* file.readinto(record): the file's first bytes over the record's, as many as
\* both hold; the record keeps its size.
readinto(record, file) ==
    [i \in 1..Len(record) |-> IF i <= Len(file) THEN file[i] ELSE record[i]]

Init ==
    /\ pc = "idle"
    /\ metadata = NoneVal
    /\ fwupd = <<>>
    /\ jsonfile = NoFile
    /\ binfile = NoBin
    /\ outjson = NoFile
    /\ binflip = FALSE
    /\ session = [json |-> FALSE, bin |-> FALSE, cfg |-> NoCfg]
    /\ rng = 0
    /\ steps = 0
    /\ last = Op("init", "ok")
    /\ argv = NoArgs
    /\ cmdlist = <<>>
    /\ nbcmd = 0
    /\ ran = <<>>
    /\ written = <<>>

\* An operation outside a session: at most MaxFileSteps of them, the start of
\* the session included; a run has at most MaxSteps operations.
Step == steps < MaxFileSteps /\ steps' = steps + 1 /\ UNCHANGED runner

ShellUnchanged == UNCHANGED <<pc, metadata, fwupd, session>>

\* ------------------------------------------------ fwumd_tool.py commands
\* dummy: argparse opens both files for writing, which empties them; the model
\* is generated, asserted valid, encoded, and both are written.
DummyWritten(dummy_metadata, cfg) ==
    IF validate_metadata(dummy_metadata)
    THEN /\ jsonfile' = dummy_metadata
         /\ binfile' = fwupd_from_dict(dummy_metadata)
         /\ last' = OpDec("dummy", "ok", cfg, NoCfg)
    ELSE /\ jsonfile' = EmptyJson
         /\ binfile' = <<>>
         /\ last' = OpDec("dummy", "AssertionError", cfg, NoCfg)

cli_dummy(nb_fw_imgs, nb_banks) ==
    /\ pc = "idle" /\ Step
    /\ rng' = rng + DummyDraws(nb_fw_imgs, nb_banks)
    /\ DummyWritten(create_dummy_metadata(nb_fw_imgs, nb_banks, rng), <<nb_fw_imgs, nb_banks>>)
    /\ binflip' = FALSE
    /\ UNCHANGED outjson
    /\ ShellUnchanged

\* jsonparse: the binary file is opened for writing (emptied) before the JSON
\* file is read; an invalid model raises before anything is encoded.
\* The two files argparse opened for the command.
JsonparseOpened == {"jsonfile", "binfile"}

\* A jsonparse that closes its files after the write, outside any finally.
JsonparseClosedAfterWrite(res) == IF res = "ok" THEN {"jsonfile", "binfile"} ELSE {}

\* finally: both files are closed, whatever the try block did.
JsonparseClosed(res) == {"jsonfile", "binfile"}

\* The try block: the first step that raises ends it.
JsonparseRes(data) ==
    IF ~IsDict(data) THEN "Exception"
    ELSE IF ~validate_metadata(data) THEN "Exception"
    ELSE IF ~EncodeOk(data) THEN "EncodeError"
    ELSE "ok"

JsonparseDone(res) ==
    /\ binfile' = IF res = "ok" THEN fwupd_from_dict(jsonfile) ELSE <<>>
    /\ last' = [Op("jsonparse", res) EXCEPT !.open = JsonparseOpened \ JsonparseClosed(res)]

cli_jsonparse ==
    /\ pc = "idle" /\ Step
    /\ jsonfile # NoFile
    /\ JsonparseDone(JsonparseRes(jsonfile))
    /\ binflip' = FALSE
    /\ UNCHANGED <<jsonfile, outjson, rng>>
    /\ ShellUnchanged

\* binparse: the record is built from a dummy model of the template's counts
\* (of the command line's without a template); the file is read into it; the
\* decoder is handed the command line's counts in both cases.  The output
\* file is opened for writing (emptied) first.  The dummy model is dropped
\* when the command ends, so its draws do not advance rng.
BinparseBuilt(nb_fw_imgs, nb_banks, template) ==
    IF template THEN CfgOf(jsonfile) ELSE <<nb_fw_imgs, nb_banks>>

BinparseTemplate(template) ==
    IF template THEN jsonfile.uuids ELSE [locations |-> <<>>, entries |-> <<>>]

BinparseDecoded(record, err, nb_fw_imgs, nb_banks, built, uuids) ==
    /\ last' = [OpDec("binparse", err, built, <<nb_fw_imgs, nb_banks>>)
                   EXCEPT !.tmpl = uuids.entries # <<>>]
    /\ outjson' = IF err = "ok"
                  THEN fwupd_to_dict(record, nb_fw_imgs, nb_banks,
                                     Keys(uuids.entries), uuids.locations)
                  ELSE EmptyJson

BinparseRead(record, nb_fw_imgs, nb_banks, built, uuids) ==
    BinparseDecoded(record, DecodeErr(record, nb_fw_imgs, nb_banks),
                    nb_fw_imgs, nb_banks, built, uuids)

BinparseFrom(built, nb_fw_imgs, nb_banks, uuids) ==
    BinparseRead(readinto(fwupd_from_dict(create_dummy_metadata(built[1], built[2], rng)), binfile),
                 nb_fw_imgs, nb_banks, built, uuids)

cli_binparse(nb_fw_imgs, nb_banks, template) ==
    /\ pc = "idle" /\ Step
    /\ binfile # NoBin
    /\ template => /\ IsDict(jsonfile)
                   /\ jsonfile.configs.nb_fw_img >= 1
                   /\ jsonfile.configs.nb_fw_banks >= 1
    /\ BinparseFrom(BinparseBuilt(nb_fw_imgs, nb_banks, template), nb_fw_imgs, nb_banks,
                    BinparseTemplate(template))
    /\ UNCHANGED <<jsonfile, binfile, binflip, rng>>
    /\ ShellUnchanged

\* dump: the file is read into a record built from a dummy model and the
\* record is displayed; the decoder is not called.
cli_dump(nb_fw_imgs, nb_banks) ==
    /\ pc = "idle" /\ Step
    /\ binfile # NoBin
    /\ last' = OpDec("dump", "ok", <<nb_fw_imgs, nb_banks>>, NoCfg)
    /\ UNCHANGED <<jsonfile, binfile, outjson, binflip, rng>>
    /\ ShellUnchanged

\* --------------------------------------------- the files' other writers
\* The JSON file edited by hand: the active index set to i.
EditActiveIndex(i) ==
    /\ pc = "idle" /\ Step
    /\ IsDict(jsonfile)
    /\ jsonfile.metadata.active_index # i
    /\ jsonfile' = [jsonfile EXCEPT !.metadata.active_index = i]
    /\ last' = Op("edit", "ok")
    /\ UNCHANGED <<binfile, outjson, binflip, rng>>
    /\ ShellUnchanged

\* The JSON file edited by hand: the previous active index set to i.
EditPreviousActiveIndex(i) ==
    /\ pc = "idle" /\ Step
    /\ IsDict(jsonfile)
    /\ jsonfile.metadata.previous_active_index # i
    /\ jsonfile' = [jsonfile EXCEPT !.metadata.previous_active_index = i]
    /\ last' = Op("edit", "ok")
    /\ UNCHANGED <<binfile, outjson, binflip, rng>>
    /\ ShellUnchanged

\* The JSON file edited by hand: the uuids.entries object written in the
\* reverse order, the same keys with the same values.
Reversed(e) == [i \in 1..Len(e) |-> e[(Len(e) + 1) - i]]

EditReorderEntries ==
    /\ pc = "idle" /\ Step
    /\ IsDict(jsonfile)
    /\ jsonfile' = [jsonfile EXCEPT !.uuids.entries = Reversed(jsonfile.uuids.entries)]
    /\ last' = Op("edit", "ok")
    /\ UNCHANGED <<binfile, outjson, binflip, rng>>
    /\ ShellUnchanged

\* Bit number bit (0..7) of byte number byte (0-based), inverted.
BitWeight == <<1, 2, 4, 8, 16, 32, 64, 128>>

FlipByte(v, p) == IF (v \div p) % 2 = 1 THEN v - p ELSE v + p

FlipBit(buf, byte, bit) == [buf EXCEPT ![byte + 1] = FlipByte(buf[byte + 1], BitWeight[bit + 1])]

\* The bytes a corruption is tried on: one of each field of the header, of the
\* first entry and of the first bank, and the record's last byte.
FlipBytes(buf) == {4, 8, 12, 16, 32, 48, 64, Len(buf) - 1}

\* The bits a corruption is tried on.
FlipBits == {0, 3, 7}

\* The binary file damaged on disk: one bit outside the checksum field flips.
CorruptBin(byte, bit) ==
    /\ pc = "idle" /\ Step
    /\ binfile # NoBin /\ ~binflip
    /\ last.op \in {"dummy", "jsonparse"} /\ last.res = "ok"
    /\ byte >= 4 /\ byte < Len(binfile)
    /\ binfile' = FlipBit(binfile, byte, bit)
    /\ binflip' = TRUE
    /\ last' = Op("corrupt", "ok")
    /\ UNCHANGED <<jsonfile, outjson, rng>>
    /\ ShellUnchanged

\* The binary file with a byte added after the record.
PadBin ==
    /\ pc = "idle" /\ Step
    /\ binfile # NoBin /\ ~binflip
    /\ last.op \in {"dummy", "jsonparse"} /\ last.res = "ok"
    /\ binfile' = Append(binfile, 0)
    /\ last' = Op("pad", "ok")
    /\ UNCHANGED <<jsonfile, outjson, binflip, rng>>
    /\ ShellUnchanged

\* ----------------------------------------------------------- src/shell.py
\* A re-encode that leaves the checksum slot as the encoder zero-filled it.
encode_without_checksum(md) == EncodeBody(md)

update_fwupd_struct(md) == fwupd_from_dict(md)

\* What a handler leaves behind: the two fields, the draws, the result.
OutDec(res, md, fw, seed, built, passed) ==
    [res |-> res, metadata |-> md, fwupd |-> fw, rng |-> seed, built |-> built, passed |-> passed]

Out(res, md, fw, seed) == OutDec(res, md, fw, seed, NoCfg, NoCfg)

\* A mutation is followed by update_fwupd_struct, which raises when a key of
\* the model is not in the side-table.
Reencoded(m, fw, seed) ==
    IF ~EncodeOk(m) THEN Out("EncodeError", m, fw, seed)
    ELSE Out("ok", m, update_fwupd_struct(m), seed)

\* An autodummy that hands its two counts over in the wrong order.
do_autodummy_swapped(md, fw, seed, nb_fw_imgs, nb_banks) ==
    IF nb_fw_imgs < 1 \/ nb_banks < 1 THEN Out("ConfigError", md, fw, seed)
    ELSE Reencoded(create_dummy_metadata(nb_banks, nb_fw_imgs, seed), fw,
                   seed + DummyDraws(nb_banks, nb_fw_imgs))

do_autodummy(md, fw, seed, nb_fw_imgs, nb_banks) ==
    IF nb_fw_imgs < 1 \/ nb_banks < 1 THEN Out("ConfigError", md, fw, seed)
    ELSE Reencoded(create_dummy_metadata(nb_fw_imgs, nb_banks, seed), fw,
                   seed + DummyDraws(nb_fw_imgs, nb_banks))

\* The counts a command was given, kept with its result.
WithCounts(out, nb_fw_imgs, nb_banks) == [out EXCEPT !.built = <<nb_fw_imgs, nb_banks>>]

\* A load_json that stores the model and does not validate it.
do_load_json_unvalidated(md, fw, seed, file) ==
    IF file = NoFile THEN Out("Exception", md, fw, seed)
    ELSE IF file = EmptyJson THEN Out("JSONDecodeError", md, fw, seed)
    ELSE IF file = NullJson THEN Out("Exception", NoneVal, fw, seed)
    ELSE Out("ok", file, fw, seed)

\* The model is stored before it is validated.
do_load_json(md, fw, seed, file) ==
    IF file = NoFile THEN Out("Exception", md, fw, seed)
    ELSE IF file = EmptyJson THEN Out("JSONDecodeError", md, fw, seed)
    ELSE IF file = NullJson THEN Out("Exception", NoneVal, fw, seed)
    ELSE IF ~validate_metadata(file) THEN Out("Exception", file, fw, seed)
    ELSE Out("ok", file, fw, seed)

\* With no model loaded a dummy one of the given counts is made; the record is
\* built from the model that is loaded, the file is read into it, and the
\* decoder is handed the counts of the command.
LoadDecoded(record, err, md, seed, nb_fw_imgs, nb_banks) ==
    OutDec(err,
           IF err = "ok" THEN fwupd_to_dict(record, nb_fw_imgs, nb_banks, <<>>, <<>>) ELSE md,
           record, seed, CfgOf(md), <<nb_fw_imgs, nb_banks>>)

LoadRead(record, md, seed, nb_fw_imgs, nb_banks) ==
    LoadDecoded(record, DecodeErr(record, nb_fw_imgs, nb_banks), md, seed, nb_fw_imgs, nb_banks)

LoadInto(auto, file, nb_fw_imgs, nb_banks) ==
    IF auto.res # "ok" THEN auto
    ELSE LoadRead(readinto(auto.fwupd, file), auto.metadata, auto.rng, nb_fw_imgs, nb_banks)

do_load_binary(md, fw, seed, file, nb_fw_imgs, nb_banks) ==
    IF file = NoBin THEN Out("Exception", md, fw, seed)
    ELSE LoadInto(IF md = NoneVal
                  THEN Reencoded(create_dummy_metadata(nb_fw_imgs, nb_banks, seed), fw,
                                 seed + DummyDraws(nb_fw_imgs, nb_banks))
                  ELSE Reencoded(md, fw, seed),
                  file, nb_fw_imgs, nb_banks)

\* load pair <jsonfile> <binfile>
PairChecked(b) ==
    IF b.res # "ok" THEN b
    ELSE IF ~validate_fwupd_and_dict(b.metadata, b.fwupd) THEN [b EXCEPT !.res = "Exception"]
    ELSE b

PairBinary(j, bfile) ==
    IF j.res # "ok" THEN j
    ELSE PairChecked(do_load_binary(j.metadata, j.fwupd, j.rng, bfile,
                                    j.metadata.configs.nb_fw_img,
                                    j.metadata.configs.nb_fw_banks))

do_load_pair(md, fw, seed, jfile, bfile) ==
    IF jfile = NoFile \/ bfile = NoBin THEN Out("Exception", md, fw, seed)
    ELSE PairBinary(do_load_json(md, fw, seed, jfile), bfile)

do_set_active_index(md, fw, seed, i) ==
    IF md = NoneVal THEN Out("TypeError", md, fw, seed)
    ELSE Reencoded([md EXCEPT !.metadata.active_index = i], fw, seed)

do_set_previous_active_index(md, fw, seed, i) ==
    IF md = NoneVal THEN Out("TypeError", md, fw, seed)
    ELSE Reencoded([md EXCEPT !.metadata.previous_active_index = i], fw, seed)

IndexOfKey(d, key) == CHOOSE h \in 1..Len(d) : d[h].k = key

SetAcceptedAt(md, i, b, accepted) ==
    [md EXCEPT !.metadata.img_entry[i].v.img_bank_info[b].v.accepted = accepted]

SetAccepted(md, img, bankkey, accepted) ==
    SetAcceptedAt(md, IndexOfKey(ImgEntry(md), img),
                  IndexOfKey(Get(ImgEntry(md), img).img_bank_info, bankkey), accepted)

\* The image the command names: [name |-> its key] or [uuid |-> a UUID text].
\* A UUID found in the side-table is looked for among the image entries, whose
\* values are dicts and never equal the text: the list is empty, IndexError.
do_set_bank_policy(md, fw, seed, image, bank, policy) ==
    IF md = NoneVal THEN Out("TypeError", md, fw, seed)
    ELSE IF "uuid" \in DOMAIN image
    THEN IF \E i \in 1..Len(md.uuids.entries) : md.uuids.entries[i].v = image.uuid
         THEN Out("IndexError", md, fw, seed)
         ELSE Out("Exception", md, fw, seed)
    ELSE IF ~HasKey(ImgEntry(md), image.name) THEN Out("Exception", md, fw, seed)
    ELSE IF ~HasKey(Get(ImgEntry(md), image.name).img_bank_info, BankKey(image.name, bank))
    THEN Out("Exception", md, fw, seed)
    ELSE IF policy \notin {"accept", "1", "true", "refuse", "0", "false"}
    THEN Out("Exception", md, fw, seed)
    ELSE Reencoded(SetAccepted(md, image.name, BankKey(image.name, bank),
                               policy \in {"accept", "1", "true"}),
                   fw, seed)

\* A command that raises ends the session: a script stops there and the
\* interactive loop lets the exception through.
Finish(op, out) ==
    /\ pc' = IF out.res = "ok" THEN "shell" ELSE "over"
    /\ metadata' = out.metadata
    /\ fwupd' = out.fwupd
    /\ rng' = out.rng
    /\ last' = OpDec(op, out.res, out.built, out.passed)
    /\ outjson' = outjson

InShell == pc = "shell" /\ steps < MaxSteps /\ steps' = steps + 1 /\ UNCHANGED runner

FilesUnchanged == UNCHANGED <<jsonfile, binfile, binflip, session>>

\* start_shell: the files given are loaded before any command.
StartLoaded(json, bin, base, nb_fw_imgs, nb_banks) ==
    IF base.res # "ok" THEN base
    ELSE IF bin
    THEN do_load_binary(base.metadata, base.fwupd, base.rng, binfile, nb_fw_imgs, nb_banks)
    ELSE IF json THEN Reencoded(base.metadata, base.fwupd, base.rng)
    ELSE base

StartShell(json, bin, nb_fw_imgs, nb_banks) ==
    /\ pc = "idle" /\ Step
    /\ ~bin => <<nb_fw_imgs, nb_banks>> = <<1, 1>>
    /\ session' = [json |-> json, bin |-> bin,
                   cfg |-> IF bin THEN <<nb_fw_imgs, nb_banks>> ELSE NoCfg]
    /\ Finish("start",
              StartLoaded(json, bin,
                          IF json THEN do_load_json(metadata, fwupd, rng, jsonfile)
                          ELSE Out("ok", metadata, fwupd, rng),
                          nb_fw_imgs, nb_banks))
    /\ UNCHANGED <<jsonfile, binfile, binflip>>

cmd_autodummy(nb_fw_imgs, nb_banks) ==
    /\ InShell
    /\ Finish("autodummy",
              WithCounts(do_autodummy(metadata, fwupd, rng, nb_fw_imgs, nb_banks),
                         nb_fw_imgs, nb_banks))
    /\ FilesUnchanged

cmd_load_json ==
    /\ InShell
    /\ Finish("load_json", do_load_json(metadata, fwupd, rng, jsonfile))
    /\ FilesUnchanged

cmd_load_binary(nb_fw_imgs, nb_banks) ==
    /\ InShell
    /\ Finish("load_binary", do_load_binary(metadata, fwupd, rng, binfile, nb_fw_imgs, nb_banks))
    /\ FilesUnchanged

cmd_load_pair ==
    /\ InShell
    /\ Finish("load_pair", do_load_pair(metadata, fwupd, rng, jsonfile, binfile))
    /\ FilesUnchanged

cmd_set_active_index(i) ==
    /\ InShell
    /\ Finish("set_active_index", do_set_active_index(metadata, fwupd, rng, i))
    /\ FilesUnchanged

cmd_set_previous_active_index(i) ==
    /\ InShell
    /\ Finish("set_previous_active_index", do_set_previous_active_index(metadata, fwupd, rng, i))
    /\ FilesUnchanged

cmd_set_bank_policy(image, bank, policy) ==
    /\ InShell
    /\ Finish("set_bank_policy", do_set_bank_policy(metadata, fwupd, rng, image, bank, policy))
    /\ FilesUnchanged

\* The images a set_bank_policy command may name: the keys a model may hold,
\* and the UUID of the loaded model's first image.
ImageArgs ==
    {[name |-> ImgName(i)] : i \in 0..(MaxImg - 1)}
        \cup (IF IsDict(metadata) THEN {[uuid |-> metadata.uuids.entries[1].v]} ELSE {})

\* The set_bank_policy commands tried: every image and bank refused, and the
\* first bank of the first image given each of the other policies.
PolicyArgs ==
    {<<image, bank, "refuse">> : image \in ImageArgs, bank \in 0..(MaxBanks - 1)}
        \cup {<<[name |-> ImgName(0)], 0, policy>> : policy \in {"accept", "maybe"}}

Next ==
    \/ \E c \in Counts : cli_dummy(c[1], c[2])
    \/ cli_jsonparse
    \/ \E c \in Counts, t \in BOOLEAN : cli_binparse(c[1], c[2], t)
    \/ \E c \in Counts : cli_dump(c[1], c[2])
    \/ \E i \in (-1)..MaxBanks : EditActiveIndex(i)
    \/ \E i \in (-1)..MaxBanks : EditPreviousActiveIndex(i)
    \/ EditReorderEntries
    \/ \E byte \in FlipBytes(binfile), bit \in FlipBits : CorruptBin(byte, bit)
    \/ PadBin
    \/ \E j \in BOOLEAN, b \in BOOLEAN, c \in Counts : StartShell(j, b, c[1], c[2])
    \/ \E c \in Counts : cmd_autodummy(c[1], c[2])
    \/ cmd_load_json
    \/ \E c \in Counts : cmd_load_binary(c[1], c[2])
    \/ cmd_load_pair
    \/ \E i \in 0..MaxBanks : cmd_set_active_index(i)
    \/ \E i \in 0..MaxBanks : cmd_set_previous_active_index(i)
    \/ \E a \in PolicyArgs : cmd_set_bank_policy(a[1], a[2], a[3])

Spec == Init /\ [][Next]_vars

\* ---------------------------------------------- the codec on its own
\* The codec's functions applied to well-formed models: a generated model,
\* edited or not, is encoded, and the record is decoded or changed.
MaxSeed == 2

Upper(text) == [i \in 1..36 |-> IF text[i] \in 10..15 THEN text[i] + 6 ELSE text[i]]

\* The edits that keep a model well-formed.
CodecEdits(md) ==
    {[field |-> f, i |-> i, b |-> 0] :
        f \in {"active_index", "previous_active_index"}, i \in 0..(md.configs.nb_fw_banks - 1)}
    \cup {[field |-> f, i |-> i, b |-> b] :
        f \in {"accepted", "reserved"}, i \in 1..md.configs.nb_fw_img, b \in 1..md.configs.nb_fw_banks}
    \cup {[field |-> f, i |-> 1, b |-> 0] : f \in {"version", "upper", "zero"}}

Edited(md, e) ==
    IF e.field = "active_index" THEN [md EXCEPT !.metadata.active_index = e.i]
    ELSE IF e.field = "previous_active_index"
    THEN [md EXCEPT !.metadata.previous_active_index = e.i]
    ELSE IF e.field = "accepted"
    THEN [md EXCEPT !.metadata.img_entry[e.i].v.img_bank_info[e.b].v.accepted = ~@]
    ELSE IF e.field = "reserved"
    THEN [md EXCEPT !.metadata.img_entry[e.i].v.img_bank_info[e.b].v.reserved = 258]
    ELSE IF e.field = "version" THEN [md EXCEPT !.metadata.version = 65537]
    ELSE IF e.field = "zero" THEN [md EXCEPT !.uuids.entries[1].v = ZeroUuid]
    ELSE [md EXCEPT !.uuids.entries[1].v = Upper(@)]

\* The accepted word of bank b of image i, inverted in the record only; fix:
\* the checksum is recomputed over the changed record.
FlipAccepted(buf, i, b, nb_banks, fix) ==
    IF fix THEN update_crc32([buf EXCEPT ![BankOff(i, b, nb_banks) + 17] = 1 - @])
    ELSE [buf EXCEPT ![BankOff(i, b, nb_banks) + 17] = 1 - @]

InitCodec ==
    /\ pc = "codec"
    /\ metadata \in {create_dummy_metadata(c[1], c[2], 17 * seed) : c \in Counts, seed \in 0..MaxSeed}
    /\ fwupd = <<>>
    /\ jsonfile = NoFile
    /\ binfile = NoBin
    /\ outjson = NoFile
    /\ binflip = FALSE
    /\ session = [json |-> FALSE, bin |-> FALSE, cfg |-> NoCfg]
    /\ rng = 0
    /\ steps = 0
    /\ last = Op("generate", "ok")
    /\ argv = NoArgs
    /\ cmdlist = <<>>
    /\ nbcmd = 0
    /\ ran = <<>>
    /\ written = <<>>

CodecStep ==
    /\ pc = "codec"
    /\ UNCHANGED <<pc, jsonfile, binfile, binflip, session, rng, steps>>
    /\ UNCHANGED runner

codec_edit(e) ==
    /\ CodecStep
    /\ last.op = "generate"
    /\ metadata' = Edited(metadata, e)
    /\ last' = Op("edit", "ok")
    /\ UNCHANGED <<fwupd, outjson>>

codec_encode ==
    /\ CodecStep
    /\ last.op \in {"generate", "edit"}
    /\ fwupd' = fwupd_from_dict(metadata)
    /\ last' = Op("encode", "ok")
    /\ UNCHANGED <<metadata, outjson>>

\* decode with the model's own side-table as the template, or with none.
codec_decode(template) ==
    /\ CodecStep
    /\ last.op = "encode"
    /\ last' = [Op("decode", DecodeErr(fwupd, metadata.configs.nb_fw_img,
                                       metadata.configs.nb_fw_banks))
                   EXCEPT !.tmpl = template]
    /\ outjson' = fwupd_to_dict(fwupd, metadata.configs.nb_fw_img, metadata.configs.nb_fw_banks,
                                IF template THEN Keys(metadata.uuids.entries) ELSE <<>>,
                                IF template THEN metadata.uuids.locations ELSE <<>>)
    /\ UNCHANGED <<metadata, fwupd>>

codec_flip_accepted(i, b, fix) ==
    /\ CodecStep
    /\ last.op = "encode"
    /\ i <= metadata.configs.nb_fw_img /\ b <= metadata.configs.nb_fw_banks
    /\ fwupd' = FlipAccepted(fwupd, i, b, metadata.configs.nb_fw_banks, fix)
    /\ last' = Op("flip_accepted", "ok")
    /\ UNCHANGED <<metadata, outjson>>

NextCodec ==
    \/ \E e \in CodecEdits(metadata) : codec_edit(e)
    \/ codec_encode
    \/ \E t \in BOOLEAN : codec_decode(t)
    \/ \E i \in 1..MaxImg, b \in 1..MaxBanks, fix \in BOOLEAN : codec_flip_accepted(i, b, fix)

SpecCodec == InitCodec /\ [][NextCodec]_vars

\* ------------------------------------- the shell command and its script
\* Text is a sequence of one-character strings, so that the splitting and
\* stripping of cli_shell work on characters as the code does.
NL == <<"\n">>
SP == <<" ">>
COMMA == <<",">>

TxtAutodummy ==
    <<"a", "u", "t", "o", "d", "u", "m", "m", "y", " ", "1", " ", "2">>

TxtSetActiveIndex ==
    <<"s", "e", "t", "_", "a", "c", "t", "i", "v", "e", "_", "i", "n", "d", "e", "x", " ",
      "1">>

TxtSetActiveIndexNoArg ==
    <<"s", "e", "t", "_", "a", "c", "t", "i", "v", "e", "_", "i", "n", "d", "e", "x">>

TxtSetPreviousActiveIndex ==
    <<"s", "e", "t", "_", "p", "r", "e", "v", "i", "o", "u", "s", "_", "a", "c", "t", "i",
      "v", "e", "_", "i", "n", "d", "e", "x", " ", "1">>

TxtGetScriptCmds ==
    <<"g", "e", "t", "_", "s", "c", "r", "i", "p", "t", "_", "c", "m", "d", "s">>

TxtCreateMetadata ==
    <<"c", "r", "e", "a", "t", "e", "_", "m", "e", "t", "a", "d", "a", "t", "a">>

TxtDump ==
    <<"d", "u", "m", "p">>

TxtExit ==
    <<"e", "x", "i", "t">>

TxtComment ==
    <<"#", " ", "s", "e", "c", "o", "n", "d", " ", "b", "a", "n", "k">>

TxtEcho ==
    <<"e", "c", "h", "o", " ", "h", "i">>

TxtTest ==
    <<"t", "e", "s", "t">>

TxtPrintAllUuids ==
    <<"p", "r", "i", "n", "t", "_", "a", "l", "l", "_", "u", "u", "i", "d", "s">>

TxtPrintChoicesUuids ==
    <<"p", "r", "i", "n", "t", "_", "c", "h", "o", "i", "c", "e", "s", "_", "u", "u", "i",
      "d", "s">>

\* No --script option.
NoScript == <<"-">>

\* Two commands, with leading and trailing blanks, a comment after a command,
\* an empty line and a comment-only line.
ScriptTidy ==
    TxtAutodummy \o NL \o SP \o SP \o TxtSetActiveIndex \o SP \o TxtComment \o NL
        \o NL \o TxtComment \o NL

\* Commands separated by a comma with blanks around it.
ScriptCommas == TxtAutodummy \o SP \o COMMA \o SP \o TxtDump \o NL \o TxtExit

\* Two commas with nothing between them.
ScriptEmptyPiece == TxtAutodummy \o COMMA \o COMMA \o TxtDump

ScriptGetScriptCmds == TxtAutodummy \o NL \o TxtGetScriptCmds \o NL \o TxtDump

ScriptSetPrevious == TxtAutodummy \o NL \o TxtSetPreviousActiveIndex \o NL \o TxtDump

ScriptCreateMetadata == TxtAutodummy \o NL \o TxtCreateMetadata \o NL \o TxtDump

\* The second command raises in expect_args: its argument is missing.
ScriptRaises == TxtAutodummy \o NL \o TxtSetActiveIndexNoArg \o NL \o TxtSetActiveIndex

\* Commands that only print.
ScriptReadOnly ==
    TxtDump \o NL \o TxtEcho \o NL \o TxtTest \o NL \o TxtPrintAllUuids \o NL
        \o TxtPrintChoicesUuids

Scripts ==
    {NoScript, ScriptTidy, ScriptCommas, ScriptEmptyPiece, ScriptGetScriptCmds,
     ScriptSetPrevious, ScriptCreateMetadata, ScriptRaises, ScriptReadOnly}

\* The positional arguments: none, one command, two commands with a comma.
CommandArgs == {<<>>, <<TxtDump>>, <<TxtDump \o COMMA, TxtExit>>}

IsSpace(c) == c \in {" ", "\t", "\n"}

RECURSIVE lstrip(_)
lstrip(text) == IF text # <<>> /\ IsSpace(Head(text)) THEN lstrip(Tail(text)) ELSE text

RECURSIVE rstrip(_)
rstrip(text) ==
    IF text # <<>> /\ IsSpace(text[Len(text)])
    THEN rstrip(SubSeq(text, 1, Len(text) - 1))
    ELSE text

\* The first place of sep in text, or one past the end.
Find(text, sep) ==
    IF \E i \in 1..Len(text) : text[i] = sep
    THEN CHOOSE i \in 1..Len(text) : text[i] = sep /\ \A j \in 1..(i - 1) : text[j] # sep
    ELSE Len(text) + 1

\* str.split(sep): the pieces between the separators, empty ones included.
RECURSIVE split(_, _)
split(text, sep) ==
    IF Find(text, sep) > Len(text) THEN <<text>>
    ELSE <<SubSeq(text, 1, Find(text, sep) - 1)>>
            \o split(SubSeq(text, Find(text, sep) + 1, Len(text)), sep)

\* The first blank of text, or one past the end.
FindSpace(text) ==
    IF \E i \in 1..Len(text) : IsSpace(text[i])
    THEN CHOOSE i \in 1..Len(text) : IsSpace(text[i]) /\ \A j \in 1..(i - 1) : ~IsSpace(text[j])
    ELSE Len(text) + 1

\* str.split(): the words between runs of blanks, none of them empty.
RECURSIVE words(_)
words(text) ==
    IF lstrip(text) = <<>> THEN <<>>
    ELSE <<SubSeq(lstrip(text), 1, FindSpace(lstrip(text)) - 1)>>
            \o words(SubSeq(lstrip(text), FindSpace(lstrip(text)), Len(lstrip(text))))

\* " ".join(list)
RECURSIVE join(_)
join(list) ==
    IF list = <<>> THEN <<>>
    ELSE IF Len(list) = 1 THEN list[1]
    ELSE list[1] \o SP \o join(Tail(list))

\* The text as a string.
RECURSIVE Str(_)
Str(text) == IF text = <<>> THEN "" ELSE Head(text) \o Str(Tail(text))

Digits == <<"0", "1", "2", "3", "4", "5", "6", "7", "8", "9">>

IsInt(word) == word # <<>> /\ \A i \in 1..Len(word) : \E d \in 1..10 : Digits[d] = word[i]

RECURSIVE int(_)
int(word) ==
    IF word = <<>> THEN 0
    ELSE (10 * int(SubSeq(word, 1, Len(word) - 1)))
            + ((CHOOSE d \in 1..10 : Digits[d] = word[Len(word)]) - 1)

\* list.extend(str): a str is iterated character by character, so the list
\* gains one element for each character of the joined arguments.
extend(list, text) == list \o [i \in 1..Len(text) |-> <<text[i]>>]

cmdlist_raw(script, commands) ==
    extend(IF script = NoScript THEN <<>> ELSE split(script, "\n"), join(commands))

\* cmd.split("#")[0].lstrip()
CutComment(cmd) == lstrip(split(cmd, "#")[1])

\* [el.rstrip().lstrip() for el in cmd.split(",")]
StripAll(pieces) == [i \in 1..Len(pieces) |-> lstrip(rstrip(pieces[i]))]

\* The loop over cmdlist_raw: comments cut, empty lines skipped, every
\* comma-separated piece of the others kept.
RECURSIVE CleanCmds(_)
CleanCmds(raw) ==
    IF raw = <<>> THEN <<>>
    ELSE (IF CutComment(Head(raw)) = <<>> THEN <<>>
          ELSE StripAll(split(CutComment(Head(raw)), ",")))
            \o CleanCmds(Tail(raw))

accepted_script_cmds ==
    {"exit", "test", "echo", "load", "load_binary", "load_json", "save", "save_binary",
     "save_json", "autodummy", "dump", "set_bank_policy", "set_active_index",
     "print_choices_uuids", "print_all_uuids"}

\* The commands defined in the part of the class headed "commands available
\* for scripting", and those of the part headed "only on interactive mode".
ScriptingSection ==
    {"echo", "exit", "test", "get_script_cmds", "load_binary", "load_json", "load",
     "save_json", "save_binary", "save", "autodummy", "dump", "set_bank_policy",
     "print_choices_uuids", "print_all_uuids", "set_active_index",
     "set_previous_active_index"}

InteractiveSection == {"create_metadata"}

\* expect_args with int arguments: too few arguments and a word that is not
\* a number raise.
WithInts(args, nbargs) ==
    IF Len(args) < nbargs THEN "Exception"
    ELSE IF \E n \in 1..nbargs : ~IsInt(args[n]) THEN "ValueError"
    ELSE "ok"

\* print_choices_uuids looks up, for every image, the bank of the active index
\* in the image's banks and in the side-table.
ChoicesFound(md) ==
    \A i \in 1..Len(ImgEntry(md)) :
        /\ HasKey(ImgEntry(md)[i].v.img_bank_info,
                  BankKey(ImgEntry(md)[i].k, md.metadata.active_index))
        /\ HasKey(md.uuids.entries, BankKey(ImgEntry(md)[i].k, md.metadata.active_index))

\* Cmd.onecmd: the first word names the handler, the rest is its input.  An
\* unknown name goes to default, which does nothing.
Dispatch(md, fw, seed, name, args) ==
    IF name = "autodummy"
    THEN IF WithInts(args, 2) # "ok" THEN Out(WithInts(args, 2), md, fw, seed)
         ELSE do_autodummy(md, fw, seed, int(args[1]), int(args[2]))
    ELSE IF name = "set_active_index"
    THEN IF WithInts(args, 1) # "ok" THEN Out(WithInts(args, 1), md, fw, seed)
         ELSE do_set_active_index(md, fw, seed, int(args[1]))
    ELSE IF name = "set_previous_active_index"
    THEN IF WithInts(args, 1) # "ok" THEN Out(WithInts(args, 1), md, fw, seed)
         ELSE do_set_previous_active_index(md, fw, seed, int(args[1]))
    ELSE IF name = "dump"
    THEN Out(IF fw = <<>> THEN "AttributeError" ELSE "ok", md, fw, seed)
    ELSE IF name = "print_all_uuids"
    THEN Out(IF md = NoneVal THEN "TypeError" ELSE "ok", md, fw, seed)
    ELSE IF name = "print_choices_uuids"
    THEN Out(IF md = NoneVal THEN "TypeError"
             ELSE IF ChoicesFound(md) THEN "ok" ELSE "KeyError", md, fw, seed)
    ELSE Out("ok", md, fw, seed)

onecmd(md, fw, seed, cmd) == Dispatch(md, fw, seed, Str(words(cmd)[1]), Tail(words(cmd)))

\* The body of the loop's try: cmd.split()[0] raises IndexError on an empty
\* command; a name outside accepted_script_cmds raises; onecmd runs the rest.
Handed(cmd) == words(cmd) # <<>> /\ Str(words(cmd)[1]) \in accepted_script_cmds

ScriptOut(md, fw, seed, cmd) ==
    IF words(cmd) = <<>> THEN Out("IndexError", md, fw, seed)
    ELSE IF ~Handed(cmd) THEN Out("NotAllowed", md, fw, seed)
    ELSE onecmd(md, fw, seed, cmd)

\* A loop that goes on to the next command after an exception.
OnExceptionContinue(nb) == [pc |-> "script", nbcmd |-> nb + 1]

\* except Exception: the traceback is printed and start_shell returns.
OnException(nb) == [pc |-> "stopped", nbcmd |-> nb]

\* The files on disk when the shell command starts, and their counts.
ShellCfg == <<1, 2>>
\* A symbolic key chosen by the author of the JSON file.
OwnKey(key) == "my_" \o key

OwnKeys(d) == [i \in 1..Len(d) |-> [k |-> OwnKey(d[i].k), v |-> d[i].v]]

OwnEntries(entries) ==
    [i \in 1..Len(entries) |->
        [k |-> OwnKey(entries[i].k),
         v |-> [location |-> OwnKey(entries[i].v.location),
                img_bank_info |-> OwnKeys(entries[i].v.img_bank_info)]]]

\* The model with every symbolic key replaced by the author's.
WithOwnKeys(md) ==
    [metadata |-> [md.metadata EXCEPT !.img_entry = OwnEntries(@)],
     uuids |-> [entries |-> OwnKeys(md.uuids.entries),
                locations |-> OwnKeys(md.uuids.locations)],
     configs |-> md.configs]

ShellJson == WithOwnKeys(create_dummy_metadata(ShellCfg[1], ShellCfg[2], 0))
ShellBin == fwupd_from_dict(ShellJson)

InitShell ==
    /\ pc = "cli"
    /\ metadata = NoneVal
    /\ fwupd = <<>>
    /\ jsonfile = ShellJson
    /\ binfile = ShellBin
    /\ outjson = NoFile
    /\ binflip = FALSE
    /\ session = [json |-> FALSE, bin |-> FALSE, cfg |-> NoCfg]
    /\ rng = DummyDraws(ShellCfg[1], ShellCfg[2])
    /\ steps = 0
    /\ last = Op("init", "ok")
    /\ argv \in [script : Scripts, commands : CommandArgs, keep : BOOLEAN,
                 json : BOOLEAN, bin : BOOLEAN]
    /\ cmdlist = <<>>
    /\ nbcmd = 0
    /\ ran = <<>>
    /\ written = <<>>

RunnerStep == UNCHANGED <<outjson, steps, argv>>

Started(out) ==
    /\ pc' = IF out.res = "ok" THEN "script" ELSE "over"
    /\ metadata' = out.metadata
    /\ fwupd' = out.fwupd
    /\ rng' = out.rng
    /\ last' = Op("start", out.res)

\* cli_shell up to the loop of start_shell: the command list is made and the
\* files given are loaded.
cli_shell ==
    /\ pc = "cli"
    /\ cmdlist' = CleanCmds(cmdlist_raw(argv.script, argv.commands))
    /\ session' = [json |-> argv.json, bin |-> argv.bin,
                   cfg |-> IF argv.bin THEN ShellCfg ELSE NoCfg]
    /\ Started(StartLoaded(argv.json, argv.bin,
                           IF argv.json THEN do_load_json(metadata, fwupd, rng, jsonfile)
                           ELSE Out("ok", metadata, fwupd, rng),
                           ShellCfg[1], ShellCfg[2]))
    /\ RunnerStep
    /\ UNCHANGED <<jsonfile, binfile, binflip, nbcmd, ran, written>>

Looped(cmd, out, next) ==
    /\ pc' = next.pc
    /\ nbcmd' = next.nbcmd
    /\ metadata' = out.metadata
    /\ fwupd' = out.fwupd
    /\ rng' = out.rng
    /\ last' = Op("script", out.res)
    /\ ran' = Append(ran, [cmd |-> cmd, res |-> out.res, handed |-> Handed(cmd)])

LoopBody(cmd, out) ==
    Looped(cmd, out,
           IF out.res = "ok" THEN [pc |-> "script", nbcmd |-> nbcmd + 1]
           ELSE OnException(nbcmd))

\* One turn of the loop over cmdlist.
script_cmd ==
    /\ pc = "script" /\ nbcmd < Len(cmdlist)
    /\ LoopBody(cmdlist[nbcmd + 1], ScriptOut(metadata, fwupd, rng, cmdlist[nbcmd + 1]))
    /\ RunnerStep
    /\ UNCHANGED <<jsonfile, binfile, binflip, session, cmdlist, written>>

\* do_save_json then do_save_binary, each for the file the shell was given;
\* f.write(None) raises after the binary file was opened for writing.
SaveBack ==
    /\ jsonfile' = IF ~session.json THEN jsonfile
                   ELSE IF metadata = NoneVal THEN NullJson ELSE metadata
    /\ binfile' = IF session.bin THEN fwupd ELSE binfile
    /\ binflip' = FALSE
    /\ written' = (IF session.json THEN <<"json">> ELSE <<>>)
                    \o (IF session.bin THEN <<"binary">> ELSE <<>>)
    /\ last' = Op("save", IF session.bin /\ fwupd = <<>> THEN "TypeError" ELSE "ok")
    /\ pc' = "saved"

\* The loop is over: the interactive loop is entered when asked for or when
\* there was no command; otherwise the files are written back.
script_end ==
    /\ pc = "script" /\ nbcmd = Len(cmdlist)
    /\ IF argv.keep \/ Len(cmdlist) = 0
       THEN /\ pc' = "loop"
            /\ last' = Op("cmdloop", "ok")
            /\ UNCHANGED <<jsonfile, binfile, binflip, written>>
       ELSE SaveBack
    /\ RunnerStep
    /\ UNCHANGED <<metadata, fwupd, rng, session, cmdlist, nbcmd, ran>>

\* The interactive loop ends with exit: the files are written back.
cmdloop_exit ==
    /\ pc = "loop"
    /\ SaveBack
    /\ RunnerStep
    /\ UNCHANGED <<metadata, fwupd, rng, session, cmdlist, nbcmd, ran>>

\* A command of the interactive loop raises: the exception leaves start_shell.
cmdloop_raise ==
    /\ pc = "loop"
    /\ pc' = "over"
    /\ last' = Op("cmdloop", "Exception")
    /\ RunnerStep
    /\ UNCHANGED <<metadata, fwupd, rng, session, cmdlist, nbcmd, ran>>
    /\ UNCHANGED <<jsonfile, binfile, binflip, written>>

NextShell ==
    \/ cli_shell
    \/ script_cmd
    \/ script_end
    \/ cmdloop_exit
    \/ cmdloop_raise

SpecShell == InitShell /\ [][NextShell]_vars

\* ------------------------------------------------------------ properties
\* What a model puts in a record: the header fields and, image by image, the
\* UUID values in canonical case, each bank's accepted flag and reserved word.
RecordValues(md) ==
    [version |-> md.metadata.version,
     active_index |-> md.metadata.active_index,
     previous_active_index |-> md.metadata.previous_active_index,
     images |->
        [i \in 1..Len(ImgEntry(md)) |->
            [img_type_uuid |-> normalize_uuid(Get(md.uuids.entries, ImgEntry(md)[i].k)),
             location_uuid |->
                normalize_uuid(Get(md.uuids.locations, ImgEntry(md)[i].v.location)),
             banks |->
                [b \in 1..Len(ImgEntry(md)[i].v.img_bank_info) |->
                    [img_uuid |->
                        normalize_uuid(Get(md.uuids.entries,
                                           ImgEntry(md)[i].v.img_bank_info[b].k)),
                     accepted |-> ImgEntry(md)[i].v.img_bank_info[b].v.accepted,
                     reserved |-> ImgEntry(md)[i].v.img_bank_info[b].v.reserved]]]]]

\* C1: a well-formed model, encoded, decoded (with or without a template) and
\* encoded again, gives the bytes of the first encoding, and the decoded model
\* holds the header fields, accepted and reserved values and UUID values of
\* the model that was encoded.
C1_RoundTrip ==
    (pc = "codec" /\ last.op = "decode") =>
        /\ last.res = "ok"
        /\ fwupd_from_dict(outjson) = fwupd
        /\ RecordValues(outjson) = RecordValues(metadata)

C1_Witness ==
    /\ pc = "codec" /\ last.op = "decode" /\ ~last.tmpl
    /\ CfgOf(metadata) = <<2, 2>>
    /\ ~metadata.metadata.img_entry[2].v.img_bank_info[1].v.accepted
    /\ fwupd_from_dict(outjson) = fwupd

\* The counts an operation that read the binary file was given are those of
\* the record in the file.
ReadWithFileCounts ==
    /\ TotalSize(last.built[1], last.built[2]) = Len(binfile)
    /\ last.op # "dump" => last.passed = last.built

\* C2: when the binary file is an encoded record with one bit flipped outside
\* the checksum field, every operation that reads it with the record's counts
\* (binparse, dump, load_binary, a session started on the file) ends with
\* IntegrityError.
C2_FlipIsIntegrityError ==
    (/\ binflip
     /\ last.op \in {"binparse", "dump", "load_binary"} \/ (last.op = "start" /\ session.bin)
     /\ ReadWithFileCounts)
        => last.res = "IntegrityError"

C2_Witness ==
    binflip /\ last.op = "dump" /\ ReadWithFileCounts /\ last.res = "ok"

IndicesInRange(md) ==
    /\ InRange(md.metadata.active_index, md.configs.nb_fw_banks)
    /\ InRange(md.metadata.previous_active_index, md.configs.nb_fw_banks)

\* C3: in a session whose commands all completed, both indices of the loaded
\* model, and of the binary record, lie in [0, nb_fw_banks).
C3_IndicesInRange ==
    (pc = "shell" /\ IsDict(metadata)) =>
        /\ IndicesInRange(metadata)
        /\ fwupd # <<>> =>
              /\ InRange(U32(fwupd, 8), metadata.configs.nb_fw_banks)
              /\ InRange(U32(fwupd, 12), metadata.configs.nb_fw_banks)

C3_Witness ==
    /\ pc = "shell" /\ last.op = "set_active_index" /\ last.res = "ok"
    /\ metadata.metadata.active_index = metadata.configs.nb_fw_banks
    /\ U32(fwupd, 8) = metadata.configs.nb_fw_banks

\* The JSON file holds a valid model, the binary file an intact record of the
\* model's counts, and the two differ in a field the consistency check compares.
Drifted ==
    /\ IsDict(jsonfile) /\ validate_metadata(jsonfile) /\ EncodeOk(jsonfile)
    /\ DecodeErr(binfile, jsonfile.configs.nb_fw_img, jsonfile.configs.nb_fw_banks) = "ok"
    /\ ~validate_fwupd_and_dict(jsonfile, binfile)

\* The last operation loaded the two files together; a session started on
\* both was given the counts of the model in the JSON file.
LoadedPair ==
    \/ last.op = "load_pair"
    \/ /\ last.op = "start" /\ session.json /\ session.bin
       /\ IsDict(jsonfile) /\ session.cfg = CfgOf(jsonfile)

\* C4: loading a JSON file together with a binary file that differs from it
\* ends with an error, and the session does not go on.
C4_DriftRejected ==
    (LoadedPair /\ Drifted) => (last.res # "ok" /\ pc = "over")

C4_Witness ==
    /\ last.op = "load_pair" /\ Drifted /\ last.res = "ok" /\ pc = "shell"
    /\ metadata.metadata.active_index # jsonfile.metadata.active_index

\* C5: an operation that decoded a binary file built the record it read the
\* file into with the counts it handed to the decoder.
C5_SameCounts ==
    (/\ last.op \in {"binparse", "load_binary", "load_pair", "start"}
     /\ last.passed # NoCfg)
        => last.built = last.passed

C5_Witness ==
    /\ last.op = "load_binary" /\ last.passed # NoCfg /\ last.built # last.passed
    /\ Len(fwupd) = TotalSize(last.built[1], last.built[2])

\* C6: a well-formed model is consistent with its own encoding, and is not
\* consistent with that encoding once one bank's accepted flag is inverted in
\* the record only, whether or not the checksum is recomputed there.
C6_Consistency ==
    /\ (pc = "codec" /\ last.op = "encode") => validate_fwupd_and_dict(metadata, fwupd)
    /\ (pc = "codec" /\ last.op = "flip_accepted") => ~validate_fwupd_and_dict(metadata, fwupd)

C6_Witness ==
    /\ pc = "codec" /\ last.op = "flip_accepted"
    /\ DecodeErr(fwupd, metadata.configs.nb_fw_img, metadata.configs.nb_fw_banks) = "ok"
    /\ CfgOf(metadata) = <<2, 2>>
    /\ U32(fwupd, BankOff(2, 2, 2) + 16) = 0
    /\ ~validate_fwupd_and_dict(metadata, fwupd)

\* The keys of a dict with their values, whatever the order.
Mapping(d) == {d[i] : i \in 1..Len(d)}

SameKeys(a, b) ==
    /\ Mapping(a.uuids.entries) = Mapping(b.uuids.entries)
    /\ Mapping(a.uuids.locations) = Mapping(b.uuids.locations)
    /\ Keys(ImgEntry(a)) = Keys(ImgEntry(b))
    /\ \A i \in 1..Len(ImgEntry(a)) :
          /\ ImgEntry(a)[i].v.location = ImgEntry(b)[i].v.location
          /\ Keys(ImgEntry(a)[i].v.img_bank_info) = Keys(ImgEntry(b)[i].v.img_bank_info)

\* C7: binparse of the encoding of a model, with that model's file as the
\* template, writes a model with the same symbolic key for every image,
\* location and bank.
C7_TemplateRecoversKeys ==
    (/\ last.op = "binparse" /\ last.tmpl
     /\ IsDict(jsonfile) /\ validate_metadata(jsonfile) /\ EncodeOk(jsonfile)
     /\ binfile = fwupd_from_dict(jsonfile))
        => /\ last.res = "ok"
           /\ IsDict(outjson)
           /\ SameKeys(outjson, jsonfile)

C7_Witness ==
    /\ last.op = "binparse" /\ last.tmpl /\ last.built = last.passed
    /\ IsDict(jsonfile) /\ validate_metadata(jsonfile) /\ EncodeOk(jsonfile)
    /\ binfile = fwupd_from_dict(jsonfile)
    /\ last.res = "ok"
    /\ ~SameKeys(outjson, jsonfile)

\* C8: a model with an index that is negative or not below the bank count
\* fails validate_metadata; jsonparse of its file raises and writes no record;
\* load_json of its file, as a command or at the start of a session, raises
\* and the session ends.
C8_BadIndexRejected ==
    (IsDict(jsonfile) /\ ~IndicesInRange(jsonfile)) =>
        /\ ~validate_metadata(jsonfile)
        /\ last.op = "jsonparse" => (last.res = "Exception" /\ binfile = <<>>)
        /\ (last.op = "load_json" \/ (last.op = "start" /\ session.json)) =>
              (last.res = "Exception" /\ pc = "over")

C8_Witness ==
    /\ last.op = "load_json" /\ IsDict(jsonfile)
    /\ jsonfile.metadata.previous_active_index = -1
    /\ InRange(jsonfile.metadata.active_index, jsonfile.configs.nb_fw_banks)
    /\ last.res = "Exception" /\ pc = "over"

AllUuids(md) == Values(md.uuids.entries) \o Values(md.uuids.locations)

\* What generate(image_count, bank_count) promises of its model.
IsGenerated(md, cfg) ==
    /\ CfgOf(md) = cfg
    /\ Len(ImgEntry(md)) = cfg[1]
    /\ \A i \in 1..Len(ImgEntry(md)) :
          /\ Len(ImgEntry(md)[i].v.img_bank_info) = cfg[2]
          /\ \A b \in 1..cfg[2] :
                /\ ImgEntry(md)[i].v.img_bank_info[b].v.accepted
                /\ ImgEntry(md)[i].v.img_bank_info[b].v.reserved = 0
    /\ md.metadata.active_index = 0
    /\ md.metadata.previous_active_index = 0
    /\ EncodeOk(md)
    /\ \A i \in 1..Len(AllUuids(md)) : validate_uuid(AllUuids(md)[i])
    /\ \A i, j \in 1..Len(AllUuids(md)) : i # j => AllUuids(md)[i] # AllUuids(md)[j]
    /\ validate_metadata(md)
    /\ DecodeErr(fwupd_from_dict(md), cfg[1], cfg[2]) = "ok"
    /\ fwupd_to_dict(fwupd_from_dict(md), cfg[1], cfg[2],
                     Keys(md.uuids.entries), md.uuids.locations) = md

\* C9: the dummy command and the autodummy command leave a model of exactly
\* the counts asked for, both indices 0, every bank accepted with reserved 0, a
\* UUID of its own for every symbolic key, valid, and equal to the decode of
\* its encoding.
C9_Generate ==
    /\ last.op = "dummy" => (last.res = "ok" /\ IsGenerated(jsonfile, last.built))
    /\ last.op = "autodummy" => (last.res = "ok" /\ IsGenerated(metadata, last.built))

C9_Witness ==
    /\ last.op = "autodummy" /\ last.built = <<1, 2>> /\ rng > DummyDraws(1, 2)
    /\ IsGenerated(metadata, <<1, 2>>)

CrcValid(buf) == Len(buf) > 4 /\ SubSeq(buf, 1, 4) = compute_crc32(buf)

\* C10: the record the dummy and jsonparse commands write, and the session's
\* record after every mutating command, is the encoding of the model with the
\* checksum of the whole record in its crc32 field, so decoding it does not
\* report IntegrityError.
C10_ChecksumValid ==
    /\ (last.op \in {"dummy", "jsonparse"} /\ last.res = "ok") =>
          /\ CrcValid(binfile)
          /\ DecodeErr(binfile, jsonfile.configs.nb_fw_img, jsonfile.configs.nb_fw_banks) = "ok"
    /\ (/\ pc = "shell"
        /\ last.op \in {"autodummy", "set_bank_policy", "set_active_index",
                        "set_previous_active_index"})
          => /\ CrcValid(fwupd)
             /\ SubSeq(fwupd, 5, Len(fwupd)) = SubSeq(EncodeBody(metadata), 5, Len(fwupd))
             /\ DecodeErr(fwupd, metadata.configs.nb_fw_img, metadata.configs.nb_fw_banks) = "ok"

C10_Witness ==
    /\ pc = "shell" /\ last.op = "set_bank_policy" /\ last.res = "ok"
    /\ ~metadata.metadata.img_entry[1].v.img_bank_info[1].v.accepted
    /\ U32(fwupd, BankOff(1, 1, metadata.configs.nb_fw_banks) + 16) = 0
    /\ CrcValid(fwupd)

\* C11: the encoded record of a model of image_count images and bank_count
\* banks is 16 + image_count * (32 + bank_count * 24) bytes long; the layout
\* gives that size, entry i at 16 + i * (32 + bank_count * 24) and its bank b
\* 32 + b * 24 further; and the record holds crc32 at 0, version at 4,
\* active_index at 8, previous_active_index at 12, and each entry's and each
\* bank's fields at those offsets (i and b counted from 0).
C11_Layout ==
    (pc = "codec" /\ last.op = "encode") =>
        LET n == metadata.configs.nb_fw_img
            nb == metadata.configs.nb_fw_banks
            stride == 32 + (nb * 24)
            entries == metadata.uuids.entries
        IN  /\ Len(fwupd) = 16 + (n * stride)
            /\ TotalSize(n, nb) = 16 + (n * stride)
            /\ SubSeq(fwupd, 1, 4) = crc32(<<0, 0, 0, 0>> \o SubSeq(fwupd, 5, Len(fwupd)))
            /\ U32(fwupd, 4) = metadata.metadata.version
            /\ U32(fwupd, 8) = metadata.metadata.active_index
            /\ U32(fwupd, 12) = metadata.metadata.previous_active_index
            /\ \A i \in 0..(n - 1) :
                  LET img == ImgEntry(metadata)[i + 1]
                      at == 16 + (i * stride)
                  IN  /\ EntryOff(i + 1, nb) = at
                      /\ SubSeq(fwupd, at + 1, at + 16) = uuid_to_bytes(Get(entries, img.k))
                      /\ SubSeq(fwupd, at + 17, at + 32)
                            = uuid_to_bytes(Get(metadata.uuids.locations, img.v.location))
                      /\ \A b \in 0..(nb - 1) :
                            LET bank == img.v.img_bank_info[b + 1]
                                bat == at + 32 + (b * 24)
                            IN  /\ BankOff(i + 1, b + 1, nb) = bat
                                /\ SubSeq(fwupd, bat + 1, bat + 16)
                                      = uuid_to_bytes(Get(entries, bank.k))
                                /\ U32(fwupd, bat + 16) = (IF bank.v.accepted THEN 1 ELSE 0)
                                /\ U32(fwupd, bat + 20) = bank.v.reserved

C11_Witness ==
    /\ pc = "codec" /\ last.op = "encode"
    /\ CfgOf(metadata) = <<2, 2>>
    /\ Len(fwupd) = 176
    /\ U32(fwupd, 16 + 80 + 32 + 24 + 20) = 258

\* The counts the last operation was given for the binary file it read.
GivenCounts == IF last.op = "dump" THEN last.built ELSE last.passed

\* C12: an operation that reads the binary file (binparse, dump, load_binary)
\* with counts whose record size is not the file's length ends with
\* SizeMismatchError.
C12_WrongSizeRejected ==
    (/\ last.op \in {"binparse", "dump", "load_binary"}
     /\ GivenCounts # NoCfg
     /\ binfile # NoBin
     /\ Len(binfile) # TotalSize(GivenCounts[1], GivenCounts[2]))
        => last.res = "SizeMismatchError"

C12_Witness ==
    /\ last.op = "binparse" /\ ~last.tmpl
    /\ binfile # NoBin
    /\ Len(binfile) = TotalSize(last.passed[1], last.passed[2]) + 1
    /\ last.res = "ok"
    /\ IsDict(outjson)

\* Byte t of a UUID text, counted over its 32 hex digits.
TextByte(u, t) == (16 * HexVal(u[HexPos[(2 * t) - 1]])) + HexVal(u[HexPos[2 * t]])

\* The wire form spelled out: the 4, 2 and 2 bytes of the first three groups
\* reversed, the last eight bytes as they stand in the text.
SwappedBytes(u) ==
    <<TextByte(u, 4), TextByte(u, 3), TextByte(u, 2), TextByte(u, 1),
      TextByte(u, 6), TextByte(u, 5), TextByte(u, 8), TextByte(u, 7),
      TextByte(u, 9), TextByte(u, 10), TextByte(u, 11), TextByte(u, 12),
      TextByte(u, 13), TextByte(u, 14), TextByte(u, 15), TextByte(u, 16)>>

\* The UUID of the first image type, in the model and in the decoded model.
FirstTypeUuid(md) == Get(md.uuids.entries, ImgEntry(md)[1].k)

\* C13: every UUID text of a model (lower case, upper case, all-zero) is valid,
\* its wire form is the text's bytes with the first three groups byte-swapped
\* and the last eight in textual order, and decoding the wire form gives the
\* text in canonical case; so do the record's bytes and the decoded model.
C13_UuidRoundTrip ==
    (pc = "codec") =>
        /\ \A j \in 1..Len(AllUuids(metadata)) :
              LET u == AllUuids(metadata)[j]
              IN  /\ validate_uuid(u)
                  /\ uuid_to_bytes(u) = SwappedBytes(u)
                  /\ uuid_from_bytes(uuid_to_bytes(u)) = normalize_uuid(u)
        /\ (last.op = "encode") =>
              SubSeq(fwupd, 17, 32) = SwappedBytes(FirstTypeUuid(metadata))
        /\ (last.op = "decode") =>
              FirstTypeUuid(outjson) = normalize_uuid(FirstTypeUuid(metadata))

C13_Witness ==
    /\ pc = "codec" /\ last.op = "decode"
    /\ \E i \in 1..36 : FirstTypeUuid(metadata)[i] \in 16..21
    /\ FirstTypeUuid(outjson) # FirstTypeUuid(metadata)
    /\ FirstTypeUuid(outjson) = normalize_uuid(FirstTypeUuid(metadata))
    /\ SubSeq(fwupd, 17, 32) = SwappedBytes(FirstTypeUuid(metadata))
    /\ SubSeq(fwupd, 17, 20) # <<TextByte(FirstTypeUuid(metadata), 1), TextByte(FirstTypeUuid(metadata), 2),
                                 TextByte(FirstTypeUuid(metadata), 3), TextByte(FirstTypeUuid(metadata), 4)>>

\* The all-zero UUID goes through the same round trip.
C13_ZeroReached ==
    /\ pc = "codec" /\ last.op = "decode"
    /\ FirstTypeUuid(metadata) = ZeroUuid
    /\ FirstTypeUuid(outjson) = ZeroUuid

\* The key the side-table gives the UUID of its first entry.
FirstEntry(md) == md.uuids.entries[1]

\* C16: a set_bank_policy command that names an image of the loaded model by
\* its UUID ends as the same command naming the image by its key: the same
\* outcome, the same model, the same record.
C16_UuidAsName ==
    [][\A bank \in 0..(MaxBanks - 1) :
          (/\ IsDict(metadata)
           /\ HasKey(ImgEntry(metadata), FirstEntry(metadata).k)
           /\ cmd_set_bank_policy([uuid |-> FirstEntry(metadata).v], bank, "refuse"))
              => LET named == do_set_bank_policy(metadata, fwupd, rng,
                                                 [name |-> FirstEntry(metadata).k], bank, "refuse")
                 IN  /\ last'.res = named.res
                     /\ metadata' = named.metadata
                     /\ fwupd' = named.fwupd]_vars

\* The command given the UUID of a loaded image has ended with IndexError.
C16_Witness ==
    /\ pc = "over"
    /\ last.op = "set_bank_policy" /\ last.res = "IndexError"
    /\ IsDict(metadata)
    /\ HasKey(ImgEntry(metadata), FirstEntry(metadata).k)
    /\ Get(ImgEntry(metadata), FirstEntry(metadata).k).img_bank_info[1].v.accepted

\* C19: after jsonparse both files are closed; the binary output holds a
\* record only when the JSON model passed validate_metadata, and then the
\* model's encoding; a model that fails it ends the command with an exception
\* and an empty binary output.
C19_JsonparseValidated ==
    (last.op = "jsonparse") =>
        /\ last.open = {}
        /\ (binfile # <<>>) =>
              /\ IsDict(jsonfile) /\ validate_metadata(jsonfile)
              /\ binfile = fwupd_from_dict(jsonfile)
        /\ (IsDict(jsonfile) /\ ~validate_metadata(jsonfile)) =>
              /\ last.res = "Exception"
              /\ binfile = <<>>

C19_Witness ==
    /\ last.op = "jsonparse" /\ last.res = "Exception"
    /\ IsDict(jsonfile) /\ ~validate_metadata(jsonfile)
    /\ binfile = <<>>
    /\ last.open = {}

\* The commands that load or change the session's model.
ModelCommands ==
    {"autodummy", "load_json", "load_binary", "load_pair", "set_bank_policy",
     "set_active_index", "set_previous_active_index"}

\* C20: after a command of the session that loads or changes the model and
\* completes without exception, the session's record is the encoding of the
\* session's model.
C20_RecordFollowsModel ==
    (/\ pc = "shell"
     /\ last.op \in ModelCommands /\ last.res = "ok"
     /\ IsDict(metadata))
        => /\ EncodeOk(metadata)
           /\ fwupd = fwupd_from_dict(metadata)

\* load_json has completed on a model whose encoding is not the session's
\* record, a record that decodes without error.
C20_Witness ==
    /\ pc = "shell"
    /\ last.op = "load_json" /\ last.res = "ok"
    /\ IsDict(metadata) /\ EncodeOk(metadata)
    /\ fwupd # <<>>
    /\ DecodeErr(fwupd, CfgOf(metadata)[1], CfgOf(metadata)[2]) = "ok"
    /\ fwupd # fwupd_from_dict(metadata)

\* The name of a command of the list: its first word.
CmdName(cmd) == Str(words(cmd)[1])

\* C14: a command of a script that is defined in the part of the shell
\* "available for scripting" is handed to onecmd, and a command of the
\* interactive-only part is refused as not known/allowed for scripting.
C14_ScriptingCommandsAccepted ==
    \A i \in 1..Len(ran) :
        (words(ran[i].cmd) # <<>>) =>
            /\ (CmdName(ran[i].cmd) \in ScriptingSection) => ran[i].handed
            /\ (CmdName(ran[i].cmd) \in InteractiveSection) =>
                  (~ran[i].handed /\ ran[i].res = "NotAllowed")

\* get_script_cmds, a command of the scripting part, has stopped a script.
C14_Witness ==
    /\ pc = "stopped"
    /\ argv.script = ScriptGetScriptCmds
    /\ Len(ran) = 2
    /\ ran[1].res = "ok"
    /\ CmdName(ran[2].cmd) = "get_script_cmds"
    /\ ran[2].res = "NotAllowed"

\* C15: the command list is the script's commands followed by the commands of
\* the arguments, the joined arguments being treated as one more line: split
\* on commas, each piece one whole command.
C15_ArgumentCommandsWhole ==
    (pc # "cli") =>
        cmdlist = CleanCmds(Append(IF argv.script = NoScript THEN <<>>
                                   ELSE split(argv.script, "\n"),
                                   join(argv.commands)))

\* The argument "dump" has reached the list as four one-character commands,
\* after the script's commands, and the first of them has stopped the run.
C15_Witness ==
    /\ pc = "stopped"
    /\ argv.script = ScriptTidy /\ argv.commands = <<TxtDump>>
    /\ cmdlist = <<TxtAutodummy, TxtSetActiveIndex, <<"d">>, <<"u">>, <<"m">>, <<"p">> >>
    /\ Len(ran) = 3
    /\ ran[3].cmd = <<"d">> /\ ran[3].res = "NotAllowed"

\* What C17 says of a run: the commands are dealt with in the order of the
\* list; nothing follows a command that failed; the interactive loop and the
\* write-back are reached only when every command completed.
AllCompleted == Len(ran) = Len(cmdlist) /\ \A i \in 1..Len(ran) : ran[i].res = "ok"

\* C17: a command that raises or is not allowed is the last one the run deals
\* with: the run stops, the interactive loop is not entered and the files are
\* as they were; the files are written back, JSON first, only after every
\* command completed.
C17_StopOnFirstException ==
    /\ Len(ran) <= Len(cmdlist)
    /\ \A i \in 1..Len(ran) : ran[i].cmd = cmdlist[i]
    /\ \A i \in 1..(Len(ran) - 1) : ran[i].res = "ok"
    /\ (pc \in {"loop", "saved"}) => AllCompleted
    /\ (written # <<>>) => (pc = "saved" /\ AllCompleted)
    /\ (pc = "stopped") =>
          /\ ran # <<>> /\ ran[Len(ran)].res # "ok"
          /\ written = <<>>
          /\ jsonfile = ShellJson /\ binfile = ShellBin
    /\ (pc = "saved") =>
          /\ written = (IF session.json THEN <<"json">> ELSE <<>>)
                          \o (IF session.bin THEN <<"binary">> ELSE <<>>)
          /\ session.json => jsonfile = metadata
          /\ session.bin => binfile = fwupd

\* The second of three commands raised: the third was not run, and neither
\* file was written back.
C17_Witness ==
    /\ pc = "stopped"
    /\ argv.script = ScriptRaises /\ argv.commands = <<>>
    /\ argv.json /\ argv.bin
    /\ Len(cmdlist) = 3 /\ Len(ran) = 2
    /\ ran[2].res = "Exception"
    /\ written = <<>>
    /\ metadata # jsonfile

\* Both files written back after a script that completed.
C17_WrittenBack ==
    /\ pc = "saved"
    /\ argv.script = ScriptTidy
    /\ written = <<"json", "binary">>
    /\ jsonfile = metadata /\ jsonfile # ShellJson
    /\ binfile = fwupd /\ binfile # ShellBin

\* C18: every element of the command list is not empty, has no blank at
\* either end, and holds no comma and no '#'.
C18_CleanCommandList ==
    (pc # "cli") =>
        \A i \in 1..Len(cmdlist) :
            /\ cmdlist[i] # <<>>
            /\ ~IsSpace(cmdlist[i][1])
            /\ ~IsSpace(cmdlist[i][Len(cmdlist[i])])
            /\ \A j \in 1..Len(cmdlist[i]) : cmdlist[i][j] \notin {",", "#"}

\* A script line with nothing between two commas has put an empty element in
\* the list, and the run has stopped on it.
C18_Witness ==
    /\ pc = "stopped"
    /\ argv.script = ScriptEmptyPiece /\ argv.commands = <<>>
    /\ cmdlist = <<TxtAutodummy, <<>>, TxtDump>>
    /\ Len(ran) = 2
    /\ ran[2].cmd = <<>> /\ ran[2].res = "IndexError"

\* The commands that change nothing in the session.
ReadOnlyCmds == {"echo", "test", "dump", "print_all_uuids", "print_choices_uuids"}

ReadOnlyRun ==
    \A i \in 1..Len(ran) : ran[i].res = "ok" /\ CmdName(ran[i].cmd) \in ReadOnlyCmds

KeySet(d) == {d[i].k : i \in 1..Len(d)}

\* C21: a session started on a JSON file, alone or with its binary file, that
\* ran only commands that change nothing writes back the model the JSON file
\* held, symbolic keys included.
C21_ReadOnlySessionKeepsJson ==
    (pc = "saved" /\ session.json /\ ReadOnlyRun) => jsonfile = ShellJson

\* Started on both files, a session of five printing commands has written a
\* JSON file with the values of the one it loaded and other symbolic keys.
C21_Witness ==
    /\ pc = "saved"
    /\ argv.script = ScriptReadOnly /\ argv.commands = <<>>
    /\ session.json /\ session.bin
    /\ Len(ran) = 5 /\ ReadOnlyRun
    /\ written = <<"json", "binary">>
    /\ binfile = ShellBin
    /\ RecordValues(jsonfile) = RecordValues(ShellJson)
    /\ KeySet(jsonfile.uuids.entries) # KeySet(ShellJson.uuids.entries)
    /\ KeySet(jsonfile.uuids.locations) # KeySet(ShellJson.uuids.locations)

\* The half of C21 that holds: started on the JSON file alone, the session
\* writes back the model it loaded.
C21_JsonAlone ==
    (pc = "saved" /\ session.json /\ ~session.bin /\ ReadOnlyRun) => jsonfile = ShellJson

C21_JsonAloneReached ==
    /\ pc = "saved"
    /\ argv.script = ScriptReadOnly
    /\ session.json /\ ~session.bin
    /\ Len(ran) = 5 /\ ReadOnlyRun
    /\ jsonfile = ShellJson
====
